---------------------------- MODULE Spec2Model ----------------------------
(***************************************************************************)
(* A model of nibabel/pointset.py: Pointset, TriangularMesh,               *)
(* TriMeshFamily, Grid and GridIndices.                                    *)
(*                                                                         *)
(* Objects live in heaps (sequences) and are named by their index, so that *)
(* "the same reference" is a statement about indices; heap holds what a    *)
(* point set has as its coordinates, an ndarray or the GridIndices that    *)
(* Grid.from_image makes.  Numbers are float64 numbers, and a product or   *)
(* a sum is the exact one rounded to the nearest float64, ties to even, as *)
(* the arithmetic of numpy's arrays rounds it; an array of integers holds  *)
(* the float64 numbers of its integers, which are small enough for integer *)
(* and float64 arithmetic to agree on them.  A matrix product adds the     *)
(* products of a row and a column from left to right.                      *)
(***************************************************************************)
EXTENDS Integers, Sequences, FiniteSets, TLC

VARIABLES heap, psets, fams, gidx, last

vars == <<heap, psets, fams, gidx, last>>

---------------------------------------------------------------------------
(* Bounds of the model *)

\* objects a run constructs (point sets, families)
MaxObjs == 2

\* point sets a run of the associativity and of the composition scenario
\* constructs
MaxSubjects == 1

\* point sets a run of the composition scenario makes by composition, each
\* from a point set constructed or made by an earlier composition
MaxCompositions == 2

\* meshes a run constructs
MaxMeshes == 2

\* mesh families a run constructs
MaxFamilies == 1

\* grids a run makes from masks and images
MaxMasks == 1

\* largest per-axis extent of a grid shape
MaxExtent == 3

\* largest number of axes of a grid shape
MaxAxes == 2

---------------------------------------------------------------------------
(* Numbers: float64 *)

\* A float64 number is s * m * 2^e with s the sign, 1 or -1, and m an odd
\* natural number below 2^53, or zero; in this form two numbers are equal
\* exactly when their records are.  The significand m is a sequence of
\* limbs, least significant first, since it does not fit the integers of the
\* checker.  Infinities, NaN, subnormal numbers and the sign of zero are left
\* out: no run comes near the ends of the exponent range.

\* the significand bits of float64
Precision == 53

\* the bits of a limb
LimbBits == 13

\* the base of the limbs
Base == 2^LimbBits

Abs(x) == IF x < 0 THEN -x ELSE x

RECURSIVE ToBig(_)
\* a natural number as limbs
ToBig(n) == IF n = 0 THEN << >> ELSE <<n % Base>> \o ToBig(n \div Base)

RECURSIVE FromBig(_)
\* the natural number of (few) limbs
FromBig(a) == IF a = << >> THEN 0 ELSE a[1] + Base * FromBig(Tail(a))

RECURSIVE BTrim(_)
\* without leading zero limbs
BTrim(a) ==
    IF a = << >> THEN a
    ELSE IF a[Len(a)] = 0 THEN BTrim(SubSeq(a, 1, Len(a) - 1))
    ELSE a

Limb(a, i) == IF i <= Len(a) THEN a[i] ELSE 0

RECURSIVE BAddFrom(_, _, _, _)
BAddFrom(a, b, i, c) ==
    IF i > Len(a) /\ i > Len(b) THEN (IF c = 0 THEN << >> ELSE <<c>>)
    ELSE LET t == Limb(a, i) + Limb(b, i) + c
         IN  <<t % Base>> \o BAddFrom(a, b, i + 1, t \div Base)

\* a + b
BAdd(a, b) == BAddFrom(a, b, 1, 0)

RECURSIVE BSubFrom(_, _, _, _)
BSubFrom(a, b, i, c) ==
    IF i > Len(a) THEN << >>
    ELSE LET t == a[i] - Limb(b, i) - c
         IN  <<(t + Base) % Base>>
                 \o BSubFrom(a, b, i + 1, IF t < 0 THEN 1 ELSE 0)

\* a - b, for a >= b
BSub(a, b) == BTrim(BSubFrom(a, b, 1, 0))

RECURSIVE BCmpFrom(_, _, _)
BCmpFrom(a, b, i) ==
    IF i = 0 THEN 0
    ELSE IF a[i] # b[i] THEN (IF a[i] < b[i] THEN -1 ELSE 1)
    ELSE BCmpFrom(a, b, i - 1)

\* -1, 0 or 1 as a < b, a = b or a > b
BCmp(a, b) ==
    IF Len(a) # Len(b) THEN (IF Len(a) < Len(b) THEN -1 ELSE 1)
    ELSE BCmpFrom(a, b, Len(a))

RECURSIVE BMulLimbFrom(_, _, _, _)
BMulLimbFrom(a, x, i, c) ==
    IF i > Len(a) THEN (IF c = 0 THEN << >> ELSE <<c>>)
    ELSE LET t == a[i] * x + c
         IN  <<t % Base>> \o BMulLimbFrom(a, x, i + 1, t \div Base)

\* a * x for a limb x
BMulLimb(a, x) == IF x = 0 THEN << >> ELSE BMulLimbFrom(a, x, 1, 0)

\* a * Base^q
LimbShift(a, q) == IF a = << >> THEN a ELSE [i \in 1..q |-> 0] \o a

RECURSIVE BMul(_, _)
\* a * b
BMul(a, b) ==
    IF a = << >> \/ b = << >> THEN << >>
    ELSE BAdd(BMulLimb(b, a[1]), LimbShift(BMul(Tail(a), b), 1))

\* a * 2^n
BShl(a, n) ==
    IF n = 0 THEN a
    ELSE LimbShift(BMulLimb(a, 2^(n % LimbBits)), n \div LimbBits)

\* a quotient with one more limb, at its high end
PutLimb(rest, x) == [q |-> Append(rest.q, x), r |-> rest.r]

RECURSIVE BDivFrom(_, _, _, _)
\* long division from limb i down, with the remainder r of the limbs above
BDivFrom(a, d, i, r) ==
    IF i = 0 THEN [q |-> << >>, r |-> r]
    ELSE PutLimb(BDivFrom(a, d, i - 1, (r * Base + a[i]) % d),
                 (r * Base + a[i]) \div d)

TrimQuotient(x) == [q |-> BTrim(x.q), r |-> x.r]

\* the quotient and the remainder of a by a limb d
BDivLimb(a, d) == TrimQuotient(BDivFrom(a, d, Len(a), 0))

\* a div 2^n
BShr(a, n) ==
    IF n = 0 THEN a
    ELSE IF n \div LimbBits >= Len(a) THEN << >>
    ELSE BDivLimb(SubSeq(a, n \div LimbBits + 1, Len(a)), 2^(n % LimbBits)).q

\* the number of bits of a
BitLen(a) ==
    IF a = << >> THEN 0
    ELSE (Len(a) - 1) * LimbBits
           + (CHOOSE k \in 1..LimbBits : 2^k > a[Len(a)] /\ 2^(k - 1) <= a[Len(a)])

RECURSIVE TrailingZeros(_)
\* the number of zero bits at the low end of a, which is not zero
TrailingZeros(a) ==
    IF a[1] = 0 THEN LimbBits + TrailingZeros(Tail(a))
    ELSE CHOOSE k \in 0..(LimbBits - 1) :
             a[1] % 2^k = 0 /\ a[1] % 2^(k + 1) # 0

\* 0.0
Zero == [s |-> 1, m |-> << >>, e |-> 0]

\* 1.0
One == [s |-> 1, m |-> <<1>>, e |-> 0]

\* s * M * 2^e with the t low zero bits of M moved to the exponent
NormAt(s, M, e, t) == [s |-> s, m |-> BShr(M, t), e |-> e + t]

\* the float64 s * M * 2^e, for M of at most Precision bits
Norm(s, M, e) ==
    IF M = << >> THEN Zero ELSE NormAt(s, M, e, TrailingZeros(M))

\* s * q * 2^e, or s * (q + 1) * 2^e when what was cut off q is more than
\* half a unit of q (c > 0), or is half a unit (c = 0) and q is odd or
\* something smaller was cut off before (sticky)
Carry(s, q, e, c, sticky) ==
    Norm(s,
         IF c > 0 \/ (c = 0 /\ (sticky \/ q[1] % 2 = 1)) THEN BAdd(q, <<1>>)
         ELSE q,
         e)

\* -1, 0 or 1 as the k low bits of M, which are M - q * 2^k, are less than
\* half a unit of q, half a unit, or more
CutOff(M, q, k) == BCmp(BSub(M, BShl(q, k)), BShl(<<1>>, k - 1))

\* q, which is M without its k low bits, rounded by them
RoundTo(s, M, q, e, sticky, k) == Carry(s, q, e + k, CutOff(M, q, k), sticky)

\* M without its k low bits, rounded by them
RoundOff(s, M, e, sticky, k) == RoundTo(s, M, BShr(M, k), e, sticky, k)

\* the float64 nearest to s * (M + f) * 2^e, ties to even, where f is zero, or
\* when sticky a fraction strictly between 0 and 1 (M then has more than
\* Precision bits): the rounding of every float64 operation
Round(s, M, e, sticky) ==
    IF BitLen(M) <= Precision THEN Norm(s, M, e)
    ELSE RoundOff(s, M, e, sticky, BitLen(M) - Precision)

\* the float64 of an integer
Num(n) == Norm(IF n < 0 THEN -1 ELSE 1, ToBig(Abs(n)), 0)

RECURSIVE DivTens(_, _, _)
RECURSIVE DivTensStep(_, _, _)
\* a div 10^k, and whether a remainder was left
DivTens(a, k, sticky) ==
    IF k = 0 THEN [q |-> a, sticky |-> sticky]
    ELSE DivTensStep(BDivLimb(a, 10), k, sticky)

\* the rest of the divisions after one with quotient and remainder d
DivTensStep(d, k, sticky) == DivTens(d.q, k - 1, sticky \/ d.r # 0)

\* the float64 nearest to (d.q + f) * 2^e
RoundQuotient(d, e) == Round(1, d.q, e, d.sticky)

\* the float64 of the decimal literal n / 10^k, n > 0: the nearest one, as
\* Python reads a literal
Dec(n, k) ==
    RoundQuotient(DivTens(BShl(ToBig(n), 64 + 4 * k), k, FALSE), -(64 + 4 * k))

\* the integer of a float64 that holds a (small) integer
ToInt(x) == IF x.m = << >> THEN 0 ELSE x.s * FromBig(BShl(x.m, x.e))

\* -x
FNeg(x) == IF x.m = << >> THEN x ELSE [x EXCEPT !.s = -x.s]

\* |x|
FAbs(x) == [x EXCEPT !.s = 1]

\* x * y in float64
FMul(x, y) ==
    IF x.m = << >> \/ y.m = << >> THEN Zero
    ELSE Round(x.s * y.s, BMul(x.m, y.m), x.e + y.e, FALSE)

\* the sign of sa * a + sb * b
SumSign(sa, a, sb, b) == IF sa # sb /\ BCmp(a, b) < 0 THEN sb ELSE sa

\* |sa * a + sb * b|
SumMag(sa, a, sb, b) ==
    IF sa = sb THEN BAdd(a, b)
    ELSE IF BCmp(a, b) < 0 THEN BSub(b, a)
    ELSE BSub(a, b)

\* the smaller of two exponents
Low(e, f) == IF e < f THEN e ELSE f

\* the float64 nearest to (sa * a + sb * b) * 2^e
AddAligned(sa, a, sb, b, e) ==
    Round(SumSign(sa, a, sb, b), SumMag(sa, a, sb, b), e, FALSE)

\* x + y in float64: the significands are brought to the smaller exponent
\* and added exactly, and the sum is rounded
FAdd(x, y) ==
    IF x.m = << >> THEN y
    ELSE IF y.m = << >> THEN x
    ELSE AddAligned(x.s, BShl(x.m, x.e - Low(x.e, y.e)),
                    y.s, BShl(y.m, y.e - Low(x.e, y.e)), Low(x.e, y.e))

\* x - y in float64
FSub(x, y) == FAdd(x, FNeg(y))

\* -1, 0 or 1 as |x| < |y|, |x| = |y| or |x| > |y|
MagCmp(x, y) ==
    BCmp(BShl(x.m, x.e - Low(x.e, y.e)), BShl(y.m, y.e - Low(x.e, y.e)))

\* x < y
FLess(x, y) ==
    IF x.s # y.s THEN x.s = -1
    ELSE IF x.s = 1 THEN MagCmp(x, y) < 0
    ELSE MagCmp(x, y) > 0

\* x <= y
FLe(x, y) == ~FLess(y, x)

\* M is the significand of a float64
Fits(M) == M = << >> \/ BitLen(M) - TrailingZeros(M) <= Precision

\* the product x * y is a float64: FMul does not round
ExactMul(x, y) == BitLen(BMul(x.m, y.m)) <= Precision

\* the sum x + y is a float64: FAdd does not round
ExactAdd(x, y) ==
    \/ x.m = << >>
    \/ y.m = << >>
    \/ Fits(SumMag(x.s, BShl(x.m, x.e - Low(x.e, y.e)),
                   y.s, BShl(y.m, y.e - Low(x.e, y.e))))

\* the default rtol of numpy.allclose, 1e-05
RTol == Dec(1, 5)

\* the default atol of numpy.allclose, 1e-08
ATol == Dec(1, 8)

\* numpy.isclose(a, b): a == b, or abs(a - b) <= atol + rtol * abs(b)
isclose(a, b) ==
    a = b \/ FLe(FAbs(FSub(a, b)), FAdd(ATol, FMul(RTol, FAbs(b))))

---------------------------------------------------------------------------
(* Arrays: a 2-D ndarray is its shape and its rows *)

\* a function on 1..n as the sequence of its values: each value is computed
\* once, when the sequence is made, and not whenever it is read
Values(f) == f \o << >>

Arr(rows, ncols) ==
    [shape |-> <<Len(rows), ncols>>,
     rows  |-> Values([i \in 1..Len(rows) |-> Values(rows[i])])]

Mat(rows) == Arr(rows, Len(rows[1]))

\* an integer-valued array, written with plain integers
IntArr(rows, ncols) ==
    Arr([i \in 1..Len(rows) |-> [j \in 1..ncols |-> Num(rows[i][j])]], ncols)

\* Python's None, where an array is expected
None == [shape |-> <<>>, rows |-> <<>>]

\* no object
NoRef == 0

eye(n) == Arr([i \in 1..n |-> [j \in 1..n |-> IF i = j THEN One ELSE Zero]], n)

Transpose(A) ==
    Arr([j \in 1..A.shape[2] |-> [i \in 1..A.shape[1] |-> A.rows[i][j]]],
        A.shape[1])

RECURSIVE Dot(_, _, _, _, _)
\* the sum of the first k products of row i of A and column j of B, added
\* from left to right
Dot(A, B, i, j, k) ==
    IF k = 0 THEN Zero
    ELSE FAdd(Dot(A, B, i, j, k - 1), FMul(A.rows[i][k], B.rows[k][j]))

\* A @ B for 2-D operands whose inner dimensions agree
MatMul(A, B) ==
    Arr([i \in 1..A.shape[1] |->
           [j \in 1..B.shape[2] |-> Dot(A, B, i, j, A.shape[2])]],
        B.shape[2])

\* numpy.hstack((A, ones)) with ones of shape (N, 1)
HStackOnes(A) ==
    Arr([i \in 1..A.shape[1] |-> Append(A.rows[i], One)], A.shape[2] + 1)

\* A[:, :-1]
DropLastCol(A) ==
    Arr([i \in 1..A.shape[1] |-> SubSeq(A.rows[i], 1, A.shape[2] - 1)],
        A.shape[2] - 1)

\* numpy.allclose(A, B) for arrays of one shape
allclose(A, B) ==
    \A i \in 1..A.shape[1] : \A j \in 1..A.shape[2] :
        isclose(A.rows[i][j], B.rows[i][j])

---------------------------------------------------------------------------
(* GridIndices: the array-like object that makes its rows when asked *)

\* nibabel.casting.able_int_type(values): the number of values of the
\* smallest unsigned integer type that holds them all (uint8, uint16)
able_int_type(values) ==
    IF \A k \in DOMAIN values : values[k] < 256 THEN 256 ELSE 65536

\* dtype=None
NoDtype == ""

\* the name of the type able_int_type chooses
DtypeName(modulus) == IF modulus = 256 THEN "uint8" ELSE "uint16"

RECURSIVE prod(_)
\* math.prod
prod(seq) == IF seq = << >> THEN 1 ELSE seq[1] * prod(Tail(seq))

\* GridIndices.__init__
GridIndices_init(shape, dtype) ==
    [gridshape |-> shape,
     dtype     |-> IF dtype = NoDtype THEN DtypeName(able_int_type(shape))
                   ELSE dtype,
     shape     |-> <<prod(shape), Len(shape)>>]

\* np.arange(s)
arange(s) == [k \in 1..s |-> k - 1]

RECURSIVE Ravel(_)
\* the index tuples of an array of a shape in the order np.reshape reads
\* its elements (C order: the last index changes fastest), from 1
Ravel(shape) ==
    IF shape = << >> THEN << << >> >>
    ELSE LET inner == Ravel(Tail(shape))
             n     == Len(inner)
         IN  [k \in 1..(shape[1] * n) |->
                <<((k - 1) \div n) + 1>> \o inner[((k - 1) % n) + 1]]

\* np.meshgrid(*axes, indexing='ij')[j] at an index tuple: axis j's value at
\* the tuple's index j
meshgrid_ij(axes, j, idx) == axes[j][idx[j]]

\* np.meshgrid(*axes, indexing='xy')[j]: the first two dimensions of the
\* outputs are swapped
meshgrid_xy(axes, j, idx) ==
    IF Len(axes) >= 2 /\ j \in {1, 2} THEN axes[j][idx[3 - j]]
    ELSE axes[j][idx[j]]

\* A mutant of GridIndices_array: Cartesian ('xy') indexing, the default of
\* np.meshgrid.
GridIndices_array_xy(self, dtype) ==
    LET axes  == [j \in DOMAIN self.gridshape |-> arange(self.gridshape[j])]
        order == Ravel(IF Len(axes) >= 2
                       THEN <<self.gridshape[2], self.gridshape[1]>>
                            \o SubSeq(self.gridshape, 3, Len(axes))
                       ELSE self.gridshape)
    IN  [dtype |-> IF dtype = NoDtype THEN self.dtype ELSE dtype,
         array |-> Arr([r \in DOMAIN order |->
                          [j \in DOMAIN axes |->
                             Num(meshgrid_xy(axes, j, order[r]))]],
                       Len(axes))]

\* GridIndices.__array__: np.reshape(np.meshgrid(...), (len(axes), -1)).T has
\* in row r, column j the r-th element of output j of meshgrid
GridIndices_array(self, dtype) ==
    LET axes  == [j \in DOMAIN self.gridshape |-> arange(self.gridshape[j])]
        order == Ravel(self.gridshape)
    IN  [dtype |-> IF dtype = NoDtype THEN self.dtype ELSE dtype,
         array |-> Arr([r \in DOMAIN order |->
                          [j \in DOMAIN axes |->
                             Num(meshgrid_ij(axes, j, order[r]))]],
                       Len(axes))]

\* a heap object is an ndarray, which has its rows, or a GridIndices
IsArray(obj) == "rows" \in DOMAIN obj

\* np.asanyarray(obj): an ndarray is itself, a GridIndices is asked for its
\* array
asanyarray(obj) ==
    IF IsArray(obj) THEN obj ELSE GridIndices_array(obj, NoDtype).array

---------------------------------------------------------------------------
(* Pointset *)

\* the outcome of a call: an exception, or a value
Raise(exc, msg) == [exc |-> exc, msg |-> msg]

Return(v) == [exc |-> "none", val |-> v]

\* Pointset.dim
Pointset_dim(coordinates, homogeneous) ==
    heap[coordinates].shape[2] - (IF homogeneous THEN 1 ELSE 0)

\* A mutant of Pointset_init: the last row is compared within the tolerance
\* of allclose instead of exactly.
Pointset_init_close(cls, tri, coordinates, affine, homogeneous) ==
    LET d   == Pointset_dim(coordinates, homogeneous)
        aff == IF affine = None THEN eye(d + 1) ELSE affine
        n   == d + 1
    IN  IF aff.shape # <<n, n>>
        THEN Raise("ValueError", "Invalid affine for coordinates")
        ELSE IF \E j \in 1..n : ~isclose(aff.rows[n][j], eye(n).rows[n][j])
        THEN Raise("ValueError", "Invalid affine matrix")
        ELSE Return([cls |-> cls, coordinates |-> coordinates, affine |-> aff,
                     homogeneous |-> homogeneous, triangles |-> tri])

\* Pointset.__init__ for a coordinates array that this call's caller has
\* just made: the array is object coordinates and has ncols columns
Pointset_init_new(cls, tri, coordinates, ncols, affine, homogeneous) ==
    LET d   == ncols - (IF homogeneous THEN 1 ELSE 0)
        aff == IF affine = None THEN eye(d + 1) ELSE affine
        n   == d + 1
    IN  IF aff.shape # <<n, n>>
        THEN Raise("ValueError", "Invalid affine for coordinates")
        ELSE IF (\E j \in 1..(n - 1) : aff.rows[n][j] # Zero) \/ aff.rows[n][n] # One
        THEN Raise("ValueError", "Invalid affine matrix")
        ELSE Return([cls |-> cls, coordinates |-> coordinates, affine |-> aff,
                     homogeneous |-> homogeneous, triangles |-> tri])

\* Pointset.__init__, run for an object of class cls whose _triangles is tri
Pointset_init(cls, tri, coordinates, affine, homogeneous) ==
    LET d   == Pointset_dim(coordinates, homogeneous)
        aff == IF affine = None THEN eye(d + 1) ELSE affine
        n   == d + 1
    IN  IF aff.shape # <<n, n>>
        THEN Raise("ValueError", "Invalid affine for coordinates")
        ELSE IF (\E j \in 1..(n - 1) : aff.rows[n][j] # Zero) \/ aff.rows[n][n] # One
        THEN Raise("ValueError", "Invalid affine matrix")
        ELSE Return([cls |-> cls, coordinates |-> coordinates, affine |-> aff,
                     homogeneous |-> homogeneous, triangles |-> tri])

\* dataclasses.replace(self, affine=affine): the class is called with the
\* dataclass fields as keywords.  Pointset and Grid take them; the __init__ of
\* TriangularMesh takes only mesh.
replace(self, affine) ==
    IF self.cls \in {"Pointset", "Grid"}
    THEN Pointset_init(self.cls, self.triangles, self.coordinates, affine,
                       self.homogeneous)
    ELSE Raise("TypeError", "__init__() got an unexpected keyword argument")

\* A mutant of Pointset_rmatmul: the new affine replaces the old one instead of
\* being composed with it.
Pointset_rmatmul_overwrite(self, affine) ==
    IF affine.shape[2] # self.affine.shape[1]
    THEN Raise("ValueError", "matmul: mismatch in core dimension")
    ELSE replace(self, affine)

\* A mutant of Pointset_rmatmul: the product is taken in the other order.
Pointset_rmatmul_swapped(self, affine) ==
    IF affine.shape[1] # self.affine.shape[2]
    THEN Raise("ValueError", "matmul: mismatch in core dimension")
    ELSE replace(self, MatMul(self.affine, affine))

\* Pointset.__rmatmul__: affine @ self
Pointset_rmatmul(self, affine) ==
    IF affine.shape[2] # self.affine.shape[1]
    THEN Raise("ValueError", "matmul: mismatch in core dimension")
    ELSE replace(self, MatMul(affine, self.affine))

\* Pointset._homogeneous_coords
Pointset_homogeneous_coords(self) ==
    IF self.homogeneous THEN asanyarray(heap[self.coordinates])
    ELSE HStackOnes(asanyarray(heap[self.coordinates]))

\* A mutant of Pointset_get_coords: the Cartesian output keeps its last column.
Pointset_get_coords_keep(self, as_homogeneous) ==
    LET ident == allclose(self.affine, eye(self.affine.shape[1]))
    IN  IF self.homogeneous = as_homogeneous /\ ident
        THEN [ref |-> IF IsArray(heap[self.coordinates])
                      THEN self.coordinates ELSE NoRef,
              arr |-> asanyarray(heap[self.coordinates])]
        ELSE LET c0 == Pointset_homogeneous_coords(self)
                 c1 == IF ~ident
                       THEN Transpose(MatMul(self.affine, Transpose(c0)))
                       ELSE c0
             IN  [ref |-> NoRef, arr |-> c1]

\* Pointset.get_coords: the array returned, and the heap object it is (NoRef
\* for an array made by the call, as np.asanyarray makes one of a GridIndices)
Pointset_get_coords(self, as_homogeneous) ==
    LET ident == allclose(self.affine, eye(self.affine.shape[1]))
    IN  IF self.homogeneous = as_homogeneous /\ ident
        THEN [ref |-> IF IsArray(heap[self.coordinates])
                      THEN self.coordinates ELSE NoRef,
              arr |-> asanyarray(heap[self.coordinates])]
        ELSE LET c0 == Pointset_homogeneous_coords(self)
                 c1 == IF ~ident
                       THEN Transpose(MatMul(self.affine, Transpose(c0)))
                       ELSE c0
                 c2 == IF ~as_homogeneous THEN DropLastCol(c1) ELSE c1
             IN  [ref |-> NoRef, arr |-> c2]

---------------------------------------------------------------------------
(* Inputs of the point set operations *)

\* the arrays the caller holds before any operation
InitialArrays ==
    << IntArr(<< <<1, 2>>, <<3, 0>> >>, 2),
       IntArr(<< <<2, 1, 1>> >>, 3),
       IntArr(<< >>, 2),
       IntArr(<< <<0, 0, 0>>, <<1, 0, 0>>, <<0, 1, 0>> >>, 3),
       IntArr(<< <<0, 1, 2>> >>, 3),
       IntArr(<< <<0, 0, 1>>, <<1, 0, 1>>, <<0, 1, 1>> >>, 3),
       IntArr(<< <<0, 2, 1>> >>, 3) >>

\* a translation and scaling of the plane
T3 == IntArr(<< <<1, 0, 2>>, <<0, 2, 1>>, <<0, 0, 1>> >>, 3)

\* an axis swap and a translation of the plane
S3 == IntArr(<< <<0, 1, 0>>, <<1, 0, 1>>, <<0, 0, 1>> >>, 3)

\* a map of the line
T2 == IntArr(<< <<2, 1>>, <<0, 1>> >>, 2)

\* within the tolerance of allclose of the identity, and not the identity
Near3 ==
    Mat(<< <<Dec(100001, 5), Zero, Zero>>, <<Zero, One, Zero>>,
           <<Zero, Zero, One>> >>)

\* a last row that is not [0, 0, 1]
BadRow3 == IntArr(<< <<1, 0, 0>>, <<0, 1, 0>>, <<0, 1, 1>> >>, 3)

\* a last entry within the tolerance of 1, and not 1
BadOne3 ==
    Mat(<< <<One, Zero, Zero>>, <<Zero, One, Zero>>,
           <<Zero, Zero, Dec(100001, 5)>> >>)

\* not square
NonSq == IntArr(<< <<1, 0, 0>>, <<0, 0, 1>> >>, 3)

\* the affine arguments of a construction
Affines == {None, T3, Near3, BadRow3, BadOne3, NonSq, T2}

\* the constructor calls of the point set runs: every affine and either flag
\* over two coordinate arrays, the empty array, and the same calls of Grid
Calls ==
    [cls : {"Pointset"}, coordinates : {1, 2}, affine : Affines,
     homogeneous : BOOLEAN]
    \cup [cls : {"Pointset"}, coordinates : {3}, affine : {T3},
          homogeneous : {FALSE}]
    \cup [cls : {"Grid"}, coordinates : {1}, affine : {None, T3, BadRow3, NonSq},
          homogeneous : {FALSE}]

\* the left operands of a composition
Matrices == {T3, S3, BadRow3, NonSq, T2}

\* a reflection of the line
R2 == IntArr(<< <<-1, 0>>, <<0, 1>> >>, 2)

\* a scaling by 0.003, whose products round
F3 == Mat(<< <<Dec(3, 3), Zero, Zero>>, <<Zero, One, Zero>>,
             <<Zero, Zero, One>> >>)

\* a scaling by 1.5
H3 == Mat(<< <<Dec(15, 1), Zero, Zero>>, <<Zero, One, Zero>>,
             <<Zero, Zero, One>> >>)

\* the affines of the associativity scenario
AssocMatrices == {T3, S3, T2, R2, BadRow3, F3}

\* the constructor calls of the associativity scenario: those of the point
\* set runs, and point sets with a fractional affine
AssocCalls ==
    Calls
    \cup [cls : {"Pointset"}, coordinates : {1}, affine : {H3},
          homogeneous : {FALSE}]
    \cup [cls : {"Pointset"}, coordinates : {2}, affine : {H3},
          homogeneous : {TRUE}]

ValidAffine(A, n) ==
    /\ A.shape = <<n, n>>
    /\ \A j \in 1..(n - 1) : A.rows[n][j] = Zero
    /\ A.rows[n][n] = One

---------------------------------------------------------------------------
(* Point set operations *)

NoOp == [op |-> "none"]

\* Pointset(coordinates, affine, homogeneous), or Grid(...), while fewer
\* than max objects exist
Construct(k, max) ==
    /\ Len(psets) < max
    /\ LET r == Pointset_init(k.cls, NoRef, k.coordinates, k.affine,
                              k.homogeneous)
       IN  /\ psets' = IF r.exc = "none" THEN Append(psets, r.val) ELSE psets
           /\ last' = [op |-> "construct", call |-> k, exc |-> r.exc,
                       msg |-> IF r.exc = "none" THEN "" ELSE r.msg,
                       obj |-> IF r.exc = "none" THEN Len(psets) + 1 ELSE NoRef]
    /\ UNCHANGED <<heap, fams, gidx>>

\* M @ psets[i], of a point set constructed or made by a composition, while
\* fewer than max objects exist
Compose(i, M, max) ==
    /\ Len(psets) < max
    /\ LET r == Pointset_rmatmul(psets[i], M)
       IN  /\ psets' = IF r.exc = "none" THEN Append(psets, r.val) ELSE psets
           /\ last' = [op |-> "compose", self |-> i, affine |-> M, exc |-> r.exc,
                       msg |-> IF r.exc = "none" THEN "" ELSE r.msg,
                       obj |-> IF r.exc = "none" THEN Len(psets) + 1 ELSE NoRef]
    /\ UNCHANGED <<heap, fams, gidx>>

\* psets[i].get_coords(as_homogeneous=h)
GetCoords(i, h) ==
    /\ last' = [op |-> "get_coords", self |-> i, as_homogeneous |-> h,
                exc |-> "none", result |-> Pointset_get_coords(psets[i], h)]
    /\ UNCHANGED <<heap, psets, fams, gidx>>

\* the results of getting the coordinates of an outcome of a composition
CoordsOf(r, h) ==
    IF r.exc = "none" THEN Return(Pointset_get_coords(r.val, h).arr) ELSE r

\* A @ (B @ psets[i]) and (A @ B) @ psets[i], and the coordinates of both;
\* the two compositions change nothing, so that a run makes them once, after
\* its constructions
Assoc(i, A, B, h) ==
    /\ last.op # "assoc"
    /\ LET n == psets[i].affine.shape[1]
       IN  ValidAffine(A, n) /\ ValidAffine(B, n)
    /\ LET inner == Pointset_rmatmul(psets[i], B)
           lhs   == IF inner.exc = "none"
                    THEN Pointset_rmatmul(inner.val, A) ELSE inner
           rhs   == Pointset_rmatmul(psets[i], MatMul(A, B))
       IN  last' = [op |-> "assoc", self |-> i, A |-> A, B |-> B,
                    as_homogeneous |-> h, exc |-> "none",
                    two_steps |-> lhs, one_step |-> rhs,
                    lhs |-> CoordsOf(lhs, h), rhs |-> CoordsOf(rhs, h)]
    /\ UNCHANGED <<heap, psets, fams, gidx>>

Init ==
    /\ heap = InitialArrays
    /\ psets = << >>
    /\ fams = << >>
    /\ gidx = << >>
    /\ last = NoOp

Next ==
    \/ \E k \in Calls : Construct(k, MaxObjs)
    \/ \E i \in DOMAIN psets, M \in Matrices : Compose(i, M, MaxObjs)
    \/ \E i \in DOMAIN psets, h \in BOOLEAN : GetCoords(i, h)

Spec == Init /\ [][Next]_vars

NextAssoc ==
    \/ \E k \in AssocCalls : Construct(k, MaxSubjects)
    \/ \E i \in DOMAIN psets, A \in AssocMatrices, B \in AssocMatrices,
          h \in BOOLEAN : Assoc(i, A, B, h)

SpecAssoc == Init /\ [][NextAssoc]_vars

\* chains of compositions: a point set, and compositions of it and of what
\* they return
NextCompose ==
    \/ \E k \in Calls : Construct(k, MaxSubjects)
    \/ \E i \in DOMAIN psets, M \in Matrices :
          Compose(i, M, 1 + MaxCompositions)

SpecCompose == Init /\ [][NextCompose]_vars

---------------------------------------------------------------------------
(* Claims about Pointset *)

\* the point p of a stored array, as a homogeneous point
Extended(self, p) ==
    IF self.homogeneous THEN heap[self.coordinates].rows[p]
    ELSE Append(heap[self.coordinates].rows[p], One)

RECURSIVE RowDot(_, _, _)
\* the sum of the first k products of a row and a point, added from left to
\* right
RowDot(row, x, k) ==
    IF k = 0 THEN Zero ELSE FAdd(RowDot(row, x, k - 1), FMul(row[k], x[k]))

\* the array a request for coordinates is to return, with coordinate j of a
\* point x being row j of the affine times x when applied is true, and x[j]
\* otherwise
Requested(self, as_homogeneous, applied) ==
    LET d == heap[self.coordinates].shape[2] - (IF self.homogeneous THEN 1 ELSE 0)
        w == IF as_homogeneous THEN d + 1 ELSE d
    IN  [shape |-> <<heap[self.coordinates].shape[1], w>>,
         rows  |-> [p \in 1..heap[self.coordinates].shape[1] |->
                      [j \in 1..w |->
                         IF applied
                         THEN RowDot(self.affine.rows[j], Extended(self, p),
                                     Len(self.affine.rows[j]))
                         ELSE Extended(self, p)[j]]]]

IsIdentity(A) ==
    \A i \in 1..A.shape[1] : \A j \in 1..A.shape[2] :
        A.rows[i][j] = (IF i = j THEN One ELSE Zero)

\* every entry within 1e-8 + 1e-5 * |I[i][j]| of the identity's, in float64
\* arithmetic: a diagonal entry within 1e-8 + 1e-5 of 1 and every other entry
\* within 1e-8 of 0
WithinTolerance(A) ==
    \A i \in 1..A.shape[1] : \A j \in 1..A.shape[2] :
        IF i = j THEN FLe(FAbs(FSub(A.rows[i][j], One)), FAdd(ATol, RTol))
        ELSE FLe(FAbs(A.rows[i][j]), ATol)

\* C1 as stated: get_coords returns the stored points, extended with a
\* trailing 1 when stored non-homogeneous, multiplied by the affine, without
\* the last column for Cartesian output; with the identity affine and the
\* requested flag equal to the stored one it returns the stored array itself.
C1_AlwaysApplied ==
    last.op = "get_coords" =>
        LET P == psets[last.self]
        IN  /\ last.result.arr = Requested(P, last.as_homogeneous, TRUE)
            /\ (IsIdentity(P.affine) /\ P.homogeneous = last.as_homogeneous
                   => last.result.ref = P.coordinates)

\* C1 amended: the points are multiplied by the affine unless every entry of
\* the affine is within the tolerance of numpy.allclose of the identity's, in
\* which case they are returned unmultiplied; within the tolerance and with
\* the requested flag equal to the stored one, the stored array is returned.
C1_AppliedUnlessClose ==
    last.op = "get_coords" =>
        LET P == psets[last.self]
        IN  /\ last.result.arr =
                   Requested(P, last.as_homogeneous, ~WithinTolerance(P.affine))
            /\ (WithinTolerance(P.affine) /\ P.homogeneous = last.as_homogeneous
                   => last.result.ref = P.coordinates)

\* a request for the Cartesian coordinates of non-homogeneous points under an
\* affine within the tolerance that is not the identity
C1_Witness ==
    /\ last.op = "get_coords"
    /\ ~last.as_homogeneous
    /\ ~psets[last.self].homogeneous
    /\ WithinTolerance(psets[last.self].affine)
    /\ ~IsIdentity(psets[last.self].affine)
    /\ heap[psets[last.self].coordinates].shape[1] > 0

\* a step never changes an existing point set or array
C2_Unchanged ==
    /\ \A i \in DOMAIN psets : i \in DOMAIN psets' /\ psets'[i] = psets[i]
    /\ \A a \in DOMAIN heap : a \in DOMAIN heap' /\ heap'[a] = heap[a]

\* the composition of this step has returned a new point set of P's class,
\* with P's coordinates array (the same object) and flag and with the affine
\* M times P's affine
C2_Returned ==
    /\ last'.exc = "none"
    /\ last'.obj = Len(psets) + 1
    /\ Len(psets') = Len(psets) + 1
    /\ LET P == psets[last'.self]
           Q == psets'[last'.obj]
       IN  /\ Q.cls = P.cls
           /\ Q.coordinates = P.coordinates
           /\ Q.homogeneous = P.homogeneous
           /\ Q.affine = MatMul(last'.affine, P.affine)

\* M times P's affine exists and is a (dim+1) x (dim+1) matrix with last row
\* [0, ..., 0, 1]
Composable(M, P) ==
    /\ M.shape[2] = P.affine.shape[1]
    /\ ValidAffine(MatMul(M, P.affine),
                   Pointset_dim(P.coordinates, P.homogeneous) + 1)

\* C2 as stated: for every matrix M, M @ P returns a new point set with the
\* affine M times P's affine and with P's coordinates (the same reference)
\* and flag; P and every other point set are unchanged, after any sequence of
\* compositions.
C2_AlwaysReturns ==
    [][ /\ C2_Unchanged
        /\ (last'.op = "compose" => C2_Returned) ]_vars

\* C2 amended: M @ P returns that point set for every M whose product with
\* P's affine exists and is a valid affine of P's dimension; for every other
\* M it raises ValueError and adds no point set; in either case no existing
\* point set or array changes, after any sequence of compositions of P and
\* of point sets derived from P.
C2_ComposeFrame ==
    [][ /\ C2_Unchanged
        /\ (last'.op = "compose" =>
               IF Composable(last'.affine, psets[last'.self])
               THEN C2_Returned
               ELSE /\ last'.exc = "ValueError"
                    /\ last'.obj = NoRef
                    /\ psets' = psets) ]_vars

\* a composition of a point set that an earlier composition returned has
\* returned: three point sets with three affines and one coordinates array
C2_Witness ==
    /\ last.op = "compose"
    /\ last.exc = "none"
    /\ Len(psets) = 3
    /\ last.self = 2
    /\ last.obj = 3
    /\ psets[2].affine = MatMul(T3, psets[1].affine)
    /\ psets[3].affine = MatMul(S3, psets[2].affine)
    /\ psets[1].affine # psets[2].affine
    /\ psets[2].affine # psets[3].affine
    /\ psets[3].coordinates = psets[1].coordinates
    /\ ~IsIdentity(psets[1].affine)

\* the affine a construction or a composition is to store, when there is one
Resulting(op, P) ==
    IF op.op = "construct"
    THEN IF op.call.affine = None
         THEN eye(Pointset_dim(op.call.coordinates, op.call.homogeneous) + 1)
         ELSE op.call.affine
    ELSE MatMul(op.affine, P.affine)

HasResulting(op, P) ==
    \/ op.op = "construct"
    \/ op.op = "compose" /\ op.affine.shape[2] = P.affine.shape[1]

DimOf(op, P) ==
    IF op.op = "construct"
    THEN Pointset_dim(op.call.coordinates, op.call.homogeneous)
    ELSE Pointset_dim(P.coordinates, P.homogeneous)

LastRowOk(A) ==
    LET n == A.shape[1]
    IN  /\ \A j \in 1..(n - 1) : A.rows[n][j] = Zero
        /\ A.rows[n][n] = One

\* every point set has an affine of size (dim+1) x (dim+1) with last row
\* exactly [0, ..., 0, 1]
C3_AffinesValid ==
    \A i \in DOMAIN psets :
        LET n == Pointset_dim(psets[i].coordinates, psets[i].homogeneous) + 1
        IN  psets[i].affine.shape = <<n, n>> /\ LastRowOk(psets[i].affine)

\* a construction or composition whose resulting affine has the wrong size
\* fails with the shape error, one whose resulting affine has a last row
\* other than [0, ..., 0, 1] fails with the invalid-matrix error, and neither
\* adds a point set
C3_Rejects ==
    last'.op \in {"construct", "compose"} =>
        LET P == IF last'.op = "compose" THEN psets[last'.self] ELSE << >>
            n == DimOf(last', P) + 1
        IN  HasResulting(last', P) =>
              LET A == Resulting(last', P)
              IN  /\ A.shape # <<n, n>> =>
                        /\ last'.exc = "ValueError"
                        /\ last'.msg = "Invalid affine for coordinates"
                        /\ psets' = psets
                  /\ (A.shape = <<n, n>> /\ ~LastRowOk(A)) =>
                        /\ last'.exc = "ValueError"
                        /\ last'.msg = "Invalid affine matrix"
                        /\ psets' = psets

\* C3: no point set ever has an invalid affine, and the constructions and
\* compositions that would make one fail with their error and add nothing.
C3_NoInvalidAffine == []C3_AffinesValid /\ [][C3_Rejects]_vars

\* a construction was refused for a last entry that is within the tolerance
\* of 1 and not 1
C3_Witness ==
    /\ last.op = "construct"
    /\ last.exc = "ValueError"
    /\ last.msg = "Invalid affine matrix"
    /\ last.call.affine # None
    /\ WithinTolerance(last.call.affine)
    /\ Len(psets) > 0

RECURSIVE ExactDot(_, _, _, _, _)
\* none of the first k products of row i of A and column j of B, and none of
\* their sums, is rounded
ExactDot(A, B, i, j, k) ==
    \/ k = 0
    \/ /\ ExactDot(A, B, i, j, k - 1)
       /\ ExactMul(A.rows[i][k], B.rows[k][j])
       /\ ExactAdd(Dot(A, B, i, j, k - 1), FMul(A.rows[i][k], B.rows[k][j]))

\* no product and no sum of A @ B is rounded
ExactMatMul(A, B) ==
    \A i \in 1..A.shape[1] : \A j \in 1..B.shape[2] :
        ExactDot(A, B, i, j, A.shape[2])

\* nothing is rounded in A @ (B @ P.affine) or in (A @ B) @ P.affine
NoRounding(A, B, P) ==
    /\ ExactMatMul(B, P.affine)
    /\ ExactMatMul(A, MatMul(B, P.affine))
    /\ ExactMatMul(A, B)
    /\ ExactMatMul(MatMul(A, B), P.affine)

\* the unit roundoff of float64, 2^-53: a rounded product or sum is within
\* this fraction of the exact one
Unit == [s |-> 1, m |-> <<1>>, e |-> -Precision]

\* the matrix of the absolute values of the entries
AbsMat(M) ==
    Arr([i \in 1..M.shape[1] |-> [j \in 1..M.shape[2] |-> FAbs(M.rows[i][j])]],
        M.shape[2])

\* the absolute values of the homogeneous coordinates of point p of P
AbsPoint(P, p) ==
    LET x == Extended(P, p) IN [k \in DOMAIN x |-> FAbs(x[k])]

RECURSIVE Sum(_, _)
\* the sum of the first k numbers of a row
Sum(row, k) == IF k = 0 THEN Zero ELSE FAdd(Sum(row, k - 1), row[k])

\* the largest difference that rounding can make between coordinate j of
\* point p in the results of the two compositions.  With n = dim + 1, a dot
\* product of n terms is within about n units of roundoff of the exact one,
\* relative to the dot product of the absolute values; either composition
\* chains three of them (two for the affine, one in get_coords), so that each
\* is within about 3 n units, relative to row j of |A| |B| |P.affine| times
\* |x|, of the exact A B P.affine x, and the two within 6 n units of each
\* other.  The bound allows 8 n.
Drift(A, B, P, p, j) ==
    LET n == P.affine.shape[1]
        W == MatMul(AbsMat(A), MatMul(AbsMat(B), AbsMat(P.affine)))
    IN  FMul(FMul(Num(8 * n), Unit), RowDot(W.rows[j], AbsPoint(P, p), n))

\* what the identity test of get_coords can add to the difference: when only
\* one of the two affines passes the test, one result is the stored point x
\* and the other the product of x and an affine that rounding alone keeps from
\* passing, each entry of which is about within atol + rtol of the identity's
Slack(L, R, P, p) ==
    IF allclose(L.affine, eye(L.affine.shape[1]))
           = allclose(R.affine, eye(R.affine.shape[1]))
    THEN Zero
    ELSE LET x == AbsPoint(P, p)
         IN  FMul(FMul(Num(2), FAdd(ATol, RTol)), Sum(x, Len(x)))

---------------------------------------------------------------------------
(* TriangularMesh and TriMeshFamily *)

\* name=None
NoName == ""

\* the keyword parameters of the get_coords an object of class cls has:
\* Pointset.get_coords(self, *, as_homogeneous=False), inherited by
\* TriangularMesh, and TriMeshFamily.get_coords(self, name=None)
get_coords_keywords(cls) ==
    IF cls = "TriMeshFamily" THEN {"name"} ELSE {"as_homogeneous"}

\* TriMeshFamily.get_coords
TriMeshFamily_get_coords(self, name) ==
    LET n == IF name = NoName THEN self.default ELSE name
    IN  IF \E k \in DOMAIN self.coords : self.coords[k][1] = n
        THEN Return(self.coords[CHOOSE k \in DOMAIN self.coords :
                                    self.coords[k][1] = n][2])
        ELSE Raise("KeyError", n)

\* TriMeshFamily.get_names
TriMeshFamily_get_names(self) == [k \in DOMAIN self.coords |-> self.coords[k][1]]

\* TriangularMesh.get_triangles
TriangularMesh_get_triangles(self) == self.triangles

\* self.get_coords(name=name), as TriangularMesh.get_mesh calls it
get_coords_by_name(self, name) ==
    IF "name" \notin get_coords_keywords(self.cls)
    THEN Raise("TypeError", "get_coords() got an unexpected keyword argument")
    ELSE TriMeshFamily_get_coords(self, name)

\* TriangularMesh.get_mesh
TriangularMesh_get_mesh(self, name) ==
    LET c == get_coords_by_name(self, name)
    IN  IF c.exc # "none" THEN c
        ELSE Return(<<c.val, TriangularMesh_get_triangles(self)>>)

\* The argument of TriangularMesh(mesh): whether it is a tuple and of which
\* items, the attributes hasattr finds on it, the values of its coords and
\* triangles attributes, and the outcome of its get_mesh().
Tuple(items) ==
    [isTuple |-> TRUE, items |-> items, attrs |-> {}, coords |-> NoRef,
     triangles |-> NoRef, get_mesh |-> Raise("AttributeError", "get_mesh")]

Object(attrs, c, t, g) ==
    [isTuple |-> FALSE, items |-> << >>, attrs |-> attrs, coords |-> c,
     triangles |-> t, get_mesh |-> g]

\* a TriangularMesh given as the argument: it has get_mesh, and its
\* attributes are named coordinates and _triangles
MeshObject(self) ==
    Object({"coordinates", "affine", "homogeneous", "_triangles", "get_mesh"},
           NoRef, NoRef, TriangularMesh_get_mesh(self, NoName))

\* A mutant of TriangularMesh_init: any tuple is unpacked.
TriangularMesh_init_anytuple(mesh) ==
    IF mesh.isTuple /\ Len(mesh.items) >= 2
    THEN Pointset_init("TriangularMesh", mesh.items[2], mesh.items[1], None, FALSE)
    ELSE IF "coords" \in mesh.attrs /\ "triangles" \in mesh.attrs
    THEN Pointset_init("TriangularMesh", mesh.triangles, mesh.coords, None, FALSE)
    ELSE IF "get_mesh" \in mesh.attrs
    THEN IF mesh.get_mesh.exc # "none" THEN mesh.get_mesh
         ELSE Pointset_init("TriangularMesh", mesh.get_mesh.val[2],
                            mesh.get_mesh.val[1], None, FALSE)
    ELSE Raise("ValueError", "Cannot interpret input as triangular mesh")

\* TriangularMesh.__init__
TriangularMesh_init(mesh) ==
    IF mesh.isTuple /\ Len(mesh.items) = 2
    THEN Pointset_init("TriangularMesh", mesh.items[2], mesh.items[1], None, FALSE)
    ELSE IF "coords" \in mesh.attrs /\ "triangles" \in mesh.attrs
    THEN Pointset_init("TriangularMesh", mesh.triangles, mesh.coords, None, FALSE)
    ELSE IF "get_mesh" \in mesh.attrs
    THEN IF mesh.get_mesh.exc # "none" THEN mesh.get_mesh
         ELSE Pointset_init("TriangularMesh", mesh.get_mesh.val[2],
                            mesh.get_mesh.val[1], None, FALSE)
    ELSE Raise("ValueError", "Cannot interpret input as triangular mesh")

\* the loop of TriMeshFamily.__init__ from entry k on, with the triangles and
\* the coordinates kept so far
RECURSIVE FamilyLoop(_, _, _, _)
FamilyLoop(mapping, k, tri, coords) ==
    IF k > Len(mapping) THEN Return([triangles |-> tri, coords |-> coords])
    ELSE LET m == TriangularMesh_init(mapping[k][2])
         IN  IF m.exc # "none" THEN m
             ELSE LET g == TriangularMesh_get_mesh(m.val, NoName)
                  IN  IF g.exc # "none" THEN g
                      ELSE FamilyLoop(mapping, k + 1,
                                      IF tri = NoRef THEN g.val[2] ELSE tri,
                                      Append(coords, <<mapping[k][1], g.val[1]>>))

\* TriMeshFamily.__init__; mapping lists the items of dict(mapping) in order
TriMeshFamily_init(mapping, default) ==
    LET r == FamilyLoop(mapping, 1, NoRef, << >>)
    IN  IF r.exc # "none" THEN r
        ELSE IF default = NoName /\ r.val.coords = << >>
        THEN Raise("StopIteration", "")
        ELSE Return([cls |-> "TriMeshFamily", triangles |-> r.val.triangles,
                     coords |-> r.val.coords,
                     default |-> IF default = NoName THEN r.val.coords[1][1]
                                 ELSE default])

---------------------------------------------------------------------------
(* Mesh operations *)

\* vertex arrays and triangle tables of the mesh runs
VertexRefs == {4, 6}

TriangleRefs == {5, 7}

\* an object of get_mesh() alone, returning (c, t)
Accessor(c, t) == Object({"get_mesh"}, NoRef, NoRef, Return(<<c, t>>))

\* an object of coords and triangles
Attrs(c, t) == Object({"coords", "triangles"}, c, t,
                      Raise("AttributeError", "get_mesh"))

\* the arguments of TriangularMesh(mesh): the three forms over the same
\* data, a tuple of three, an object of coords alone, an object of the
\* attributes and of an accessor that returns something else, and a dict
MeshInputs ==
    {Tuple(<<c, 5>>) : c \in VertexRefs}
    \cup {Attrs(4, t) : t \in TriangleRefs}
    \cup {Accessor(4, 5), Accessor(6, 7),
          Tuple(<<4, 5, 5>>),
          Object({"coords"}, 4, NoRef, Raise("AttributeError", "get_mesh")),
          Object({"coords", "triangles", "get_mesh"}, 4, 5, Return(<<6, 7>>)),
          Object({"keys", "items"}, NoRef, NoRef,
                 Raise("AttributeError", "get_mesh"))}

\* a valid affine of space, and a matrix of the wrong size
T4 == IntArr(<< <<1, 0, 0, 2>>, <<0, 0, 1, 0>>, <<0, 2, 0, 1>>, <<0, 0, 0, 1>> >>, 4)

MeshMatrices == {T4, eye(4), T3}

\* TriangularMesh(mesh)
MeshConstruct(mesh) ==
    /\ Len(psets) < MaxMeshes
    /\ LET r == TriangularMesh_init(mesh)
       IN  /\ psets' = IF r.exc = "none" THEN Append(psets, r.val) ELSE psets
           /\ last' = [op |-> "mesh", mesh |-> mesh, exc |-> r.exc,
                       obj |-> IF r.exc = "none" THEN Len(psets) + 1 ELSE NoRef]
    /\ UNCHANGED <<heap, fams, gidx>>

\* psets[i].get_mesh(name)
GetMesh(i, name) ==
    /\ last' = [op |-> "get_mesh", self |-> i, name |-> name,
                result |-> TriangularMesh_get_mesh(psets[i], name)]
    /\ UNCHANGED <<heap, psets, fams, gidx>>

\* psets[i].get_triangles()
GetTriangles(i) ==
    /\ last' = [op |-> "get_triangles", self |-> i,
                result |-> Return(TriangularMesh_get_triangles(psets[i]))]
    /\ UNCHANGED <<heap, psets, fams, gidx>>

\* TriMeshFamily(mapping, default)
BuildFamily(mapping, default) ==
    /\ Len(fams) < MaxFamilies
    /\ LET r == TriMeshFamily_init(mapping, default)
       IN  /\ fams' = IF r.exc = "none" THEN Append(fams, r.val) ELSE fams
           /\ last' = [op |-> "family", mapping |-> mapping, default |-> default,
                       exc |-> r.exc,
                       obj |-> IF r.exc = "none" THEN Len(fams) + 1 ELSE NoRef]
    /\ UNCHANGED <<heap, psets, gidx>>

\* fams[f].get_names()
FamilyGetNames(f) ==
    /\ last' = [op |-> "get_names", self |-> f,
                result |-> Return(TriMeshFamily_get_names(fams[f]))]
    /\ UNCHANGED <<heap, psets, fams, gidx>>

\* fams[f].get_coords(name)
FamilyGetCoords(f, name) ==
    /\ last' = [op |-> "family_get_coords", self |-> f, name |-> name,
                result |-> TriMeshFamily_get_coords(fams[f], name)]
    /\ UNCHANGED <<heap, psets, fams, gidx>>

Names == {"a", "b"}

\* the mesh-like values of a mapping: two tuples and an accessor object of
\* one topology, and a dict
FamilyInputs ==
    {Tuple(<<4, 5>>), Tuple(<<6, 5>>), Accessor(6, 7),
     Object({"keys", "items"}, NoRef, NoRef, Raise("AttributeError", "get_mesh"))}

\* the mappings of at most two names, in either order
Mappings ==
    {<< >>}
    \cup {<< <<n, m>> >> : n \in Names, m \in FamilyInputs}
    \cup {p \in {<< <<n1, m1>>, <<n2, m2>> >> :
                   n1 \in Names, n2 \in Names,
                   m1 \in FamilyInputs, m2 \in FamilyInputs} :
            p[1][1] # p[2][1]}

\* fams[f].get_mesh(name)
FamilyGetMesh(f, name) ==
    /\ last' = [op |-> "family_get_mesh", self |-> f, name |-> name,
                result |-> TriangularMesh_get_mesh(fams[f], name)]
    /\ UNCHANGED <<heap, psets, fams, gidx>>

NextMesh ==
    \/ \E m \in MeshInputs \cup {MeshObject(psets[i]) : i \in DOMAIN psets} :
          MeshConstruct(m)
    \/ \E i \in DOMAIN psets, name \in Names \cup {NoName} : GetMesh(i, name)
    \/ \E i \in DOMAIN psets : GetTriangles(i)
    \/ \E i \in DOMAIN psets, h \in BOOLEAN : GetCoords(i, h)
    \/ \E i \in DOMAIN psets, M \in MeshMatrices : Compose(i, M, MaxObjs)

SpecMesh == Init /\ [][NextMesh]_vars

NextFamily ==
    \/ \E m \in Mappings, d \in Names \cup {NoName} : BuildFamily(m, d)
    \/ \E f \in DOMAIN fams : FamilyGetNames(f)
    \/ \E f \in DOMAIN fams, name \in Names \cup {NoName} : FamilyGetCoords(f, name)
    \/ \E f \in DOMAIN fams, name \in Names \cup {NoName} : FamilyGetMesh(f, name)

SpecFamily == Init /\ [][NextFamily]_vars

---------------------------------------------------------------------------
(* Claims about TriangularMesh and TriMeshFamily *)

\* the three accepted forms of an argument
IsPair(m) == m.isTuple /\ Len(m.items) = 2

HasMeshAttrs(m) == ~m.isTuple /\ {"coords", "triangles"} \subseteq m.attrs

HasAccessor(m) == ~m.isTuple /\ "get_mesh" \in m.attrs /\ m.get_mesh.exc = "none"

\* the (coords, triangles) an argument of exactly one form holds
DataOf(m) ==
    IF IsPair(m) THEN <<m.items[1], m.items[2]>>
    ELSE IF HasMeshAttrs(m) THEN <<m.coords, m.triangles>>
    ELSE m.get_mesh.val

OneForm(m) ==
    \/ IsPair(m)
    \/ HasMeshAttrs(m) /\ "get_mesh" \notin m.attrs
    \/ HasAccessor(m) /\ ~HasMeshAttrs(m)

NoForm(m) ==
    ~IsPair(m) /\ ~HasMeshAttrs(m) /\ "get_mesh" \notin m.attrs

C5_Step ==
    last'.op = "mesh" =>
        /\ OneForm(last'.mesh) =>
              /\ last'.exc = "none"
              /\ last'.obj = Len(psets) + 1
              /\ psets' = Append(psets, psets'[last'.obj])
              /\ psets'[last'.obj].cls = "TriangularMesh"
              /\ psets'[last'.obj].coordinates = DataOf(last'.mesh)[1]
              /\ psets'[last'.obj].triangles = DataOf(last'.mesh)[2]
              /\ IsIdentity(psets'[last'.obj].affine)
              /\ psets'[last'.obj].affine.shape =
                     <<heap[DataOf(last'.mesh)[1]].shape[2] + 1,
                       heap[DataOf(last'.mesh)[1]].shape[2] + 1>>
        /\ NoForm(last'.mesh) =>
              /\ last'.exc = "ValueError"
              /\ psets' = psets

\* C5: constructing a TriangularMesh from a 2-tuple, from an object of coords
\* and triangles, or from an object whose get_mesh() returns a pair gives a
\* mesh with that data's coordinates and triangles and an identity affine
\* (so the same mesh for the same data); an argument of none of the forms
\* fails with ValueError and adds no mesh.
C5_Dispatch == [][C5_Step]_vars

\* a mesh made from an object with an accessor equals the mesh made before
\* it from the same data
C5_Witness ==
    /\ Len(psets) = 2
    /\ psets[1] = psets[2]
    /\ last.op = "mesh"
    /\ HasAccessor(last.mesh)
    /\ last.obj = 2

\* C6: get_mesh(name) of a base TriangularMesh returns the pair of its
\* coordinates and its triangle table, whatever the name; get_triangles()
\* returns the triangle table.
C6_GetMesh ==
    /\ last.op = "get_mesh" =>
          /\ last.result.exc = "none"
          /\ last.result.val =
                <<Pointset_get_coords(psets[last.self], FALSE),
                  psets[last.self].triangles>>
    /\ last.op = "get_triangles" =>
          last.result = Return(psets[last.self].triangles)

\* the coordinates a family is to return for the name of entry k
EntryCoords(mapping, k) ==
    LET c == DataOf(mapping[k][2])[1] IN [ref |-> c, arr |-> heap[c]]

\* C7: a family built from a mapping of names to mesh-like inputs has the
\* mapping's names in order, returns the coordinates of the entry registered
\* under a name, returns the default entry's coordinates for no name (the
\* explicit default, or the first name), and shares the first entry's
\* triangle table.
C7_Family ==
    (/\ last.op = "family"
     /\ Len(last.mapping) > 0
     /\ \A k \in DOMAIN last.mapping : OneForm(last.mapping[k][2])
     /\ last.default \in {last.mapping[k][1] : k \in DOMAIN last.mapping}
                          \cup {NoName})
    => /\ last.exc = "none"
       /\ LET F == fams[last.obj]
              d == IF last.default = NoName THEN last.mapping[1][1]
                   ELSE last.default
          IN  /\ TriMeshFamily_get_names(F) =
                    [k \in DOMAIN last.mapping |-> last.mapping[k][1]]
              /\ \A k \in DOMAIN last.mapping :
                    TriMeshFamily_get_coords(F, last.mapping[k][1]) =
                        Return(EntryCoords(last.mapping, k))
              /\ \E k \in DOMAIN last.mapping :
                    /\ last.mapping[k][1] = d
                    /\ TriMeshFamily_get_coords(F, NoName) =
                          Return(EntryCoords(last.mapping, k))
              /\ F.triangles = DataOf(last.mapping[1][2])[2]

\* C10: M @ T for a TriangularMesh T and a valid affine M returns a new
\* TriangularMesh with T's coordinates array, T's triangle table and the
\* affine M times T's affine.
C10_ComposeMesh ==
    (/\ last.op = "compose"
     /\ psets[last.self].cls = "TriangularMesh"
     /\ ValidAffine(last.affine, psets[last.self].affine.shape[1]))
    => /\ last.exc = "none"
       /\ psets[last.obj].cls = "TriangularMesh"
       /\ psets[last.obj].coordinates = psets[last.self].coordinates
       /\ psets[last.obj].triangles = psets[last.self].triangles
       /\ psets[last.obj].affine =
              MatMul(last.affine, psets[last.self].affine)

---------------------------------------------------------------------------
(* Grid *)

RECURSIVE Cells(_)
\* the index tuples of an array of a shape, from 0
Cells(shape) ==
    IF shape = << >> THEN {<< >>}
    ELSE {<<i>> \o rest : i \in 0..(shape[1] - 1), rest \in Cells(Tail(shape))}

RECURSIVE LexLess(_, _)
LexLess(x, y) ==
    /\ x # << >>
    /\ \/ x[1] < y[1]
       \/ x[1] = y[1] /\ LexLess(Tail(x), Tail(y))

RECURSIVE InOrder(_)
\* the tuples of a set in row-major (C) order
InOrder(S) ==
    IF S = {} THEN << >>
    ELSE LET m == CHOOSE x \in S : \A y \in S \ {x} : LexLess(x, y)
         IN  <<m>> \o InOrder(S \ {m})

\* a boolean array: its shape and the index tuples of its true elements
Volume(shape, on) == [shape |-> shape, on |-> on]

\* nibabel.spatialimages.SpatialImage(dataobj, affine)
SpatialImage(dataobj, affine) ==
    [dataobj |-> dataobj, affine |-> affine, shape |-> dataobj.shape]

\* np.c_[np.nonzero(mask_arr)].astype(dtype): one row per true element, in
\* row-major order
NonzeroRows(vol, modulus) ==
    LET cells == InOrder(vol.on)
    IN  Arr([r \in DOMAIN cells |->
               [j \in DOMAIN vol.shape |-> Num(cells[r][j] % modulus)]],
            Len(vol.shape))

\* Grid.from_mask: the coordinates array it makes, which becomes object ref,
\* and the outcome of cls(coordinates=..., affine=mask.affine)
Grid_from_mask(mask, ref) ==
    LET coords == NonzeroRows(mask.dataobj, able_int_type(mask.shape))
    IN  [coordinates |-> coords,
         grid |-> Pointset_init_new("Grid", NoRef, ref, coords.shape[2],
                                    mask.affine, FALSE)]

\* Grid.from_image: the GridIndices it makes over the first three axes of the
\* image, which becomes object ref, and the outcome of
\* cls(coordinates=..., affine=spatialimage.affine)
Grid_from_image(spatialimage, ref) ==
    LET n      == IF Len(spatialimage.shape) < 3 THEN Len(spatialimage.shape)
                  ELSE 3
        coords == GridIndices_init(SubSeq(spatialimage.shape, 1, n), NoDtype)
    IN  [coordinates |-> coords,
         grid |-> Pointset_init_new("Grid", NoRef, ref, coords.shape[2],
                                    spatialimage.affine, FALSE)]

RECURSIVE MaxOf(_)
MaxOf(row) ==
    IF Len(row) = 1 THEN row[1]
    ELSE LET m == MaxOf(Tail(row)) IN IF FLess(m, row[1]) THEN row[1] ELSE m

\* tuple(np.max(self.coordinates, axis=1)[: self.dim]): the maximum of each
\* of the first dim rows
DefaultShape(coords, d) ==
    LET n == IF coords.shape[1] < d THEN coords.shape[1] ELSE d
    IN  [r \in 1..n |-> ToInt(MaxOf(coords.rows[r]))]

\* the values of coordinates[:, :dim], which index the first axis
IndexValues(coords, d) ==
    {ToInt(coords.rows[r][j]) : r \in 1..coords.shape[1], j \in 1..d}

\* shape=None; the empty tuple is not among the shapes the runs pass
NoShape == << >>

\* Grid.to_mask
Grid_to_mask(self, shape) ==
    LET coords == asanyarray(heap[self.coordinates])
        d      == Pointset_dim(self.coordinates, self.homogeneous)
        shp    == IF shape = NoShape THEN DefaultShape(coords, d) ELSE shape
        idx    == IndexValues(coords, d)
    IN  IF \E k \in DOMAIN shp : shp[k] < 0
        THEN Raise("ValueError", "negative dimensions are not allowed")
        ELSE IF shp = << >>
        THEN Raise("IndexError", "too many indices for array")
        ELSE IF \E v \in idx : v >= shp[1] \/ v < -shp[1]
        THEN Raise("IndexError", "index is out of bounds for axis 0")
        ELSE Return(SpatialImage(
                 Volume(shp, {c \in Cells(shp) :
                                \E v \in idx : c[1] = (v + shp[1]) % shp[1]}),
                 self.affine))

\* the shapes of the masks
MaskShapes == {<<2, 2, 1>>, <<1, 2, 2>>}

\* every boolean mask of those shapes, with an identity or another affine
Masks ==
    UNION {{SpatialImage(Volume(s, on), a) :
               on \in SUBSET Cells(s), a \in {eye(4), T4}} : s \in MaskShapes}

\* the shapes of the images: three axes, two, and four
ImageShapes == {<<2, 3, 1>>, <<1, 2, 2>>, <<2, 2>>, <<2, 2, 1, 2>>}

\* images of those shapes, whose data is not read, with affines of the plane
\* and of space, one of them with an invalid last row
Images ==
    {SpatialImage(Volume(s, {}), a) :
        s \in ImageShapes, a \in {eye(4), T4, eye(3), BadRow3}}

\* Grid.from_image(spatialimage); nothing holds the GridIndices of a call
\* that raises
FromImage(spatialimage) ==
    /\ Len(psets) < MaxMasks
    /\ LET r == Grid_from_image(spatialimage, Len(heap) + 1)
       IN  /\ heap' = IF r.grid.exc = "none" THEN Append(heap, r.coordinates)
                      ELSE heap
           /\ psets' = IF r.grid.exc = "none" THEN Append(psets, r.grid.val)
                       ELSE psets
           /\ last' = [op |-> "from_image", image |-> spatialimage,
                       exc |-> r.grid.exc,
                       msg |-> IF r.grid.exc = "none" THEN "" ELSE r.grid.msg,
                       obj |-> IF r.grid.exc = "none" THEN Len(psets) + 1
                               ELSE NoRef]
    /\ UNCHANGED <<fams, gidx>>

\* Grid.from_mask(mask); nothing holds the array of a call that raises
FromMask(mask) ==
    /\ Len(psets) < MaxMasks
    /\ LET r == Grid_from_mask(mask, Len(heap) + 1)
       IN  /\ heap' = IF r.grid.exc = "none" THEN Append(heap, r.coordinates)
                      ELSE heap
           /\ psets' = IF r.grid.exc = "none" THEN Append(psets, r.grid.val)
                       ELSE psets
           /\ last' = [op |-> "from_mask", mask |-> mask, exc |-> r.grid.exc,
                       obj |-> IF r.grid.exc = "none" THEN Len(psets) + 1
                               ELSE NoRef]
    /\ UNCHANGED <<fams, gidx>>

\* psets[i].to_mask(shape)
ToMask(i, shape) ==
    /\ last' = [op |-> "to_mask", self |-> i, shape |-> shape,
                result |-> Grid_to_mask(psets[i], shape)]
    /\ UNCHANGED <<heap, psets, fams, gidx>>

NextGrid ==
    \/ \E m \in Masks : FromMask(m)
    \/ \E im \in Images : FromImage(im)
    \/ \E i \in DOMAIN psets, h \in BOOLEAN : GetCoords(i, h)
    \/ \E i \in DOMAIN psets, s \in MaskShapes \cup {NoShape} : ToMask(i, s)

SpecGrid == Init /\ [][NextGrid]_vars

\* C8: from_mask(m) holds exactly the index rows of the true elements of m,
\* and from_mask(m).to_mask(shape=m.shape) is a boolean volume of m's shape
\* that is true exactly where m is.
C8_RoundTrip ==
    /\ last.op = "from_mask" =>
          LET c == heap[psets[last.obj].coordinates]
          IN  /\ last.exc = "none"
              /\ c.shape = <<Cardinality(last.mask.dataobj.on), Len(last.mask.shape)>>
              /\ {c.rows[r] : r \in 1..c.shape[1]} =
                     {[j \in DOMAIN x |-> Num(x[j])] : x \in last.mask.dataobj.on}
    /\ last.op = "to_mask" =>
          \A m \in Masks :
             (/\ m.shape = last.shape
              /\ m.affine = psets[last.self].affine
              /\ IsArray(heap[psets[last.self].coordinates])
              /\ heap[psets[last.self].coordinates] = NonzeroRows(m.dataobj, 256))
             => /\ last.result.exc = "none"
                /\ last.result.val.dataobj = m.dataobj

---------------------------------------------------------------------------
(* GridIndices: its operations *)

RECURSIVE ShapesOf(_)
\* the grid shapes of n axes
ShapesOf(n) ==
    IF n = 0 THEN {<< >>}
    ELSE {<<e>> \o rest : e \in 0..MaxExtent, rest \in ShapesOf(n - 1)}

\* the grid shapes of one axis or more
GridShapes == UNION {ShapesOf(n) : n \in 1..MaxAxes}

Dtypes == {NoDtype, "int64"}

\* GridIndices(shape, dtype): the object the run goes on with
NewGridIndices(shape, dtype) ==
    /\ gidx' = <<GridIndices_init(shape, dtype)>>
    /\ last' = [op |-> "grid_indices", shape |-> shape, dtype |-> dtype]
    /\ UNCHANGED <<heap, psets, fams>>

\* gidx[i].__array__(dtype)
Materialize(i, dtype) ==
    /\ last' = [op |-> "array", self |-> i, dtype |-> dtype,
                result |-> GridIndices_array(gidx[i], dtype)]
    /\ UNCHANGED <<heap, psets, fams, gidx>>

NextIndices ==
    \/ \E s \in GridShapes, d \in Dtypes : NewGridIndices(s, d)
    \/ \E i \in DOMAIN gidx, d \in Dtypes : Materialize(i, d)

SpecIndices == Init /\ [][NextIndices]_vars

RECURSIVE Stride(_, _)
\* the number of rows over which column j keeps its value
Stride(shape, j) ==
    IF j >= Len(shape) THEN 1 ELSE shape[j + 1] * Stride(shape, j + 1)

\* a materialization has exactly e_1 * ... * e_n rows of n columns, as the
\* declared shape says; row r holds, in column j, (r div the product of the
\* later extents) mod e_j, which is row-major order; no row occurs twice and
\* every combination occurs
C9_Rows ==
    last.op = "array" =>
        LET G == gidx[last.self]
            A == last.result.array
            n == Len(G.gridshape)
        IN  /\ A.shape = G.shape
            /\ A.shape = <<prod(G.gridshape), n>>
            /\ Len(A.rows) = prod(G.gridshape)
            /\ \A r \in DOMAIN A.rows : \A j \in 1..n :
                  A.rows[r][j] =
                      Num(((r - 1) \div Stride(G.gridshape, j)) % G.gridshape[j])
            /\ \A r1, r2 \in DOMAIN A.rows : A.rows[r1] = A.rows[r2] => r1 = r2
            /\ {A.rows[r] : r \in DOMAIN A.rows} =
                  {[j \in 1..n |-> Num(c[j])] : c \in Cells(G.gridshape)}
            /\ (G.gridshape = <<2, 3>> =>
                   A.rows = IntArr(<< <<0, 0>>, <<0, 1>>, <<0, 2>>,
                                      <<1, 0>>, <<1, 1>>, <<1, 2>> >>, 2).rows)

\* a materialization leaves the object as it was
C9_Pure == last'.op = "array" => gidx' = gidx

\* C9: materializing a GridIndices gives every combination of the per-axis
\* ranges once, in row-major order, as many rows as its shape declares, and
\* leaves gridshape, dtype and shape unchanged.
C9_RowMajor == []C9_Rows /\ [][C9_Pure]_vars

\* the grid of shape (2, 3) has been materialized
C9_Witness ==
    /\ last.op = "array"
    /\ gidx[last.self].gridshape = <<2, 3>>
    /\ Len(last.result.array.rows) = 6

====
